---- MODULE Spec2Model ----
(***************************************************************************)
(* GitHub pull-request synchronisation of dotflox: the reconciler          *)
(* (syncPullRequestCore), the pruner, the change detector and the sync     *)
(* cycle (syncRepoPullRequestsFromGithub) over the Convex tables repos,    *)
(* contributors, pullRequests and repoContributors; the pagination loop of *)
(* the GitHub client; and the analysis workflows of prAgent.ts over the    *)
(* tables analysisSessions, prAnalyses and analysisSessionPRs.             *)
(*                                                                         *)
(* Rows are records; the Convex document id is the field id.  Convex ids    *)
(* are opaque and never reused: the model names a document by its table    *)
(* key and the number of documents ever inserted under that key, and       *)
(* usedIds keeps every id ever handed out.  Fields the sync                *)
(* logic only copies (title, body, url, login, avatarUrl, githubPrId,      *)
(* createdAt/closedAt of a PR) and the updatedAt stamps, which every write  *)
(* overwrites, are left out of the rows.                                   *)
(***************************************************************************)
EXTENDS Integers, FiniteSets, Sequences, TLC

VARIABLES
    repos,            \* table repos
    contributors,     \* table contributors
    pullRequests,     \* table pullRequests
    repoContributors, \* table repoContributors
    usedIds,          \* the document ids ever allocated, per table
    upstream,         \* GitHub: state of each PR of each repository
    upstreamChanges,  \* number of upstream changes so far
    cycles,           \* the running syncRepoPullRequestsFromGithub actions
    runs,             \* number of scheduler ticks so far
    adder,            \* the running addFromGithub action
    scheduled,        \* runFullAnalysisWorkflow jobs scheduled, per repos id
    last,             \* outcome of the last mutation on the synced tables
    det,              \* inputs and result of the last change detection
    analysisSessions, \* table analysisSessions
    prAnalyses,       \* table prAnalyses
    analysisSessionPRs, \* table analysisSessionPRs
    workflows,        \* the running analysis and snapshot workflow actions
    dateNow,          \* Date.now() as the analysis mutations read it
    pager             \* the running github.listPullRequests call

vars == <<repos, contributors, pullRequests, repoContributors, usedIds,
          upstream, upstreamChanges, cycles, runs, adder, scheduled, last, det,
          analysisSessions, prAnalyses, analysisSessionPRs, workflows, dateNow,
          pager>>

storeVars == <<repos, contributors, pullRequests, repoContributors, usedIds>>
procVars == <<upstream, upstreamChanges, cycles, runs, adder, scheduled>>
analysisVars == <<analysisSessions, prAnalyses, analysisSessionPRs>>
auxVars == <<analysisVars, workflows, dateNow, pager>>

-----------------------------------------------------------------------------
(* Bounds and input domains *)

MaxIncarnations == 2    \* pullRequests documents ever inserted per (repo, number)
MaxRuns == 2            \* ticks of the sync scheduler
MaxAdds == 1            \* addFromGithub calls
MaxUpstreamChanges == 1 \* changes of PR state on GitHub
MaxPulls == 101         \* pull requests of the repository the pager lists

Undefined == 0          \* an absent optional number (v.optional)
UndefinedName == "undefined"  \* an absent optional string

GithubRepoIds == {"g1", "g2", "g3"}   \* g3 is never linked: it has no repos row
LinkableRepoIds == {"g1", "g2"}
GithubUserIds == {"u1", "u2"}
PrNumbers == {1, 2}
Names == {UndefinedName, "Ann"}
Roles == {UndefinedName}
Statuses == {"open", "closed", "merged"}

-----------------------------------------------------------------------------
(* The store *)

DB == [repos |-> repos, contributors |-> contributors,
       pullRequests |-> pullRequests, repoContributors |-> repoContributors,
       usedIds |-> usedIds]

Commit(d) ==
    /\ repos' = d.repos
    /\ contributors' = d.contributors
    /\ pullRequests' = d.pullRequests
    /\ repoContributors' = d.repoContributors
    /\ usedIds' = d.usedIds

\* db.insert: the id of a new document with the given key
FreshId(used, key) ==
    Append(key, 1 + Cardinality({i \in used :
                                   SubSeq(i, 1, Len(key)) = key}))

\* .unique() of a Convex query: the set of matching rows has 0 or 1 element,
\* and the query throws on more.
UniqueThrows(rows) == Cardinality(rows) > 1
TheRow(rows) == CHOOSE r \in rows : TRUE

\* a ?? b
Coalesce(a, b) == IF a = UndefinedName THEN b ELSE a

ReposByGithubRepoId(d, g) == {r \in d.repos : r.githubRepoId = g}

\* the lookup on the wrong index field
ContributorsByName(d, u) == {c \in d.contributors : c.name = u}

ContributorsByGithubUserId(d, u) ==
    {c \in d.contributors : c.githubUserId = u}

\* the lookup that sees open PRs only
OpenPullRequestsByRepoAndNumber(d, repoId, n) ==
    {p \in d.pullRequests :
        p.repoId = repoId /\ p.prNumber = n /\ p.status = "open"}

PullRequestsByRepoAndNumber(d, repoId, n) ==
    {p \in d.pullRequests : p.repoId = repoId /\ p.prNumber = n}

PullRequestsByRepo(d, repoId) == {p \in d.pullRequests : p.repoId = repoId}

PullRequestsByAuthor(d, contributorId) ==
    {p \in d.pullRequests : p.authorContributorId = contributorId}

RepoContributorsByRepoAndContributor(d, repoId, contributorId) ==
    {rc \in d.repoContributors :
        rc.repoId = repoId /\ rc.contributorId = contributorId}

-----------------------------------------------------------------------------
(* syncPullRequestCore *)

\* status of the stored PR row
DeriveStatus(pullRequest) ==
    IF pullRequest.merged = TRUE THEN "merged"
    ELSE IF pullRequest.state = "open" THEN "open"
    ELSE "closed"

\* the contributors table after the contributor upsert
WithContributor(d, author, syncedAt) ==
    LET found == ContributorsByGithubUserId(d, author.githubUserId) IN
    IF found = {}
    THEN [d EXCEPT
            !.contributors = @ \cup
                {[id |-> FreshId(d.usedIds.contributors,
                                 <<author.githubUserId>>),
                  githubUserId |-> author.githubUserId,
                  name |-> author.name,
                  createdAt |-> syncedAt]},
            !.usedIds.contributors = @ \cup
                {FreshId(d.usedIds.contributors, <<author.githubUserId>>)}]
    ELSE LET c == TheRow(found) IN
         [d EXCEPT
            !.contributors = (@ \ {c}) \cup
                {[c EXCEPT !.name = Coalesce(author.name, c.name)]}]

\* the PR upsert that inserts without looking the PR up
WithPullRequestInserted(d, repoId, contributorId, pullRequest, syncedAt) ==
    [d EXCEPT
        !.pullRequests = @ \cup
            {[id |-> FreshId(d.usedIds.pullRequests,
                             <<repoId, pullRequest.number>>),
              repoId |-> repoId,
              authorContributorId |-> contributorId,
              prNumber |-> pullRequest.number,
              status |-> DeriveStatus(pullRequest),
              mergedAt |-> pullRequest.mergedAt,
              lastSyncedAt |-> syncedAt]},
        !.usedIds.pullRequests = @ \cup
            {FreshId(d.usedIds.pullRequests,
                     <<repoId, pullRequest.number>>)}]

\* the PR upsert that replaces the stored document by a new one
WithPullRequestReplaced(d, repoId, contributorId, pullRequest, syncedAt) ==
    LET found == PullRequestsByRepoAndNumber(d, repoId, pullRequest.number)
    IN WithPullRequestInserted([d EXCEPT !.pullRequests = @ \ found],
                               repoId, contributorId, pullRequest, syncedAt)

\* the pullRequests table after the PR upsert
WithPullRequest(d, repoId, contributorId, pullRequest, syncedAt) ==
    LET found == PullRequestsByRepoAndNumber(d, repoId, pullRequest.number)
        basePrDoc == [repoId |-> repoId,
                      authorContributorId |-> contributorId,
                      prNumber |-> pullRequest.number,
                      status |-> DeriveStatus(pullRequest),
                      mergedAt |-> pullRequest.mergedAt,
                      lastSyncedAt |-> syncedAt]
    IN
    IF found = {}
    THEN [d EXCEPT
            !.pullRequests = @ \cup
                {[id |-> FreshId(d.usedIds.pullRequests,
                                 <<repoId, pullRequest.number>>)]
                 @@ basePrDoc},
            !.usedIds.pullRequests = @ \cup
                {FreshId(d.usedIds.pullRequests,
                         <<repoId, pullRequest.number>>)}]
    ELSE LET p == TheRow(found) IN
         [d EXCEPT
            !.pullRequests = (@ \ {p}) \cup {[id |-> p.id] @@ basePrDoc}]

\* the patch that adds to linesChanged instead of overwriting it
PatchRepoContributorAccumulating(rc, prCount, stats, syncedAt) ==
    [rc EXCEPT !.prCount = prCount,
               !.linesChanged = @ + stats.additions + stats.deletions]

\* the patch that writes the row as the insert would
PatchRepoContributorResetting(rc, prCount, stats, syncedAt) ==
    [rc EXCEPT !.prCount = prCount,
               !.linesChanged = stats.additions + stats.deletions,
               !.role = UndefinedName,
               !.createdAt = syncedAt]

\* the patch of an existing repoContributors row
PatchRepoContributor(rc, prCount, stats, syncedAt) ==
    [rc EXCEPT !.prCount = prCount,
               !.linesChanged = stats.additions + stats.deletions]

\* the reconciler without its link upsert
WithoutRepoContributor(d, repoId, contributorId, stats, syncedAt) == d

\* the repoContributors table after the link upsert
WithRepoContributor(d, repoId, contributorId, stats, syncedAt) ==
    LET found == RepoContributorsByRepoAndContributor(d, repoId, contributorId)
        prCount == Cardinality(PullRequestsByAuthor(d, contributorId))
    IN
    IF found = {}
    THEN [d EXCEPT
            !.repoContributors = @ \cup
                {[id |-> FreshId(d.usedIds.repoContributors,
                                 <<repoId, contributorId>>),
                  repoId |-> repoId,
                  contributorId |-> contributorId,
                  role |-> UndefinedName,
                  prCount |-> prCount,
                  linesChanged |-> stats.additions + stats.deletions,
                  createdAt |-> syncedAt]},
            !.usedIds.repoContributors = @ \cup
                {FreshId(d.usedIds.repoContributors,
                         <<repoId, contributorId>>)}]
    ELSE LET rc == TheRow(found) IN
         [d EXCEPT
            !.repoContributors = (@ \ {rc}) \cup
                {PatchRepoContributor(rc, prCount, stats, syncedAt)}]

\* The result of a mutation: the store it leaves, and how it ended
\* ("ok": returned a value, "none": returned nothing, "error": threw, and
\* the transaction wrote nothing).
Outcome(d, how) == [db |-> d, outcome |-> how]

\* the id of the contributor the upsert inserted or found
ContributorIdOf(d, author) ==
    LET found == ContributorsByGithubUserId(d, author.githubUserId) IN
    IF found = {}
    THEN FreshId(d.usedIds.contributors, <<author.githubUserId>>)
    ELSE TheRow(found).id

\* syncPullRequestCore after the repository lookup found repoRow
SyncKnownRepo(d, repoRow, args) ==
    IF UniqueThrows(ContributorsByGithubUserId(d, args.author.githubUserId))
    THEN Outcome(d, "error")
    ELSE
    LET d1 == WithContributor(d, args.author, args.syncedAt)
        contributorId == ContributorIdOf(d, args.author)
    IN
    IF UniqueThrows(PullRequestsByRepoAndNumber(
                        d1, repoRow.id, args.pullRequest.number))
    THEN Outcome(d, "error")
    ELSE
    LET d2 == WithPullRequest(d1, repoRow.id, contributorId,
                              args.pullRequest, args.syncedAt)
    IN
    IF UniqueThrows(RepoContributorsByRepoAndContributor(
                        d2, repoRow.id, contributorId))
    THEN Outcome(d, "error")
    ELSE Outcome(WithRepoContributor(d2, repoRow.id, contributorId,
                                     args.stats, args.syncedAt), "ok")

\* the reconciler that links an unknown repository itself
syncPullRequestCoreLinking(d, args) ==
    LET g == args.repo.githubRepoId
        d1 == IF ReposByGithubRepoId(d, g) # {} THEN d
              ELSE [d EXCEPT
                      !.repos = @ \cup
                          {[id |-> FreshId(d.usedIds.repos, <<g>>),
                            githubRepoId |-> g,
                            ownerUserId |-> "a1",
                            githubAccessToken |-> FALSE]},
                      !.usedIds.repos = @ \cup
                          {FreshId(d.usedIds.repos, <<g>>)}]
        found == ReposByGithubRepoId(d1, g)
    IN IF UniqueThrows(found) THEN Outcome(d, "error")
       ELSE SyncKnownRepo(d1, TheRow(found), args)

\* syncPullRequestCore as the file of the sync action defines it: an unknown
\* repository is skipped
syncPullRequestCore(d, args) ==
    LET found == ReposByGithubRepoId(d, args.repo.githubRepoId) IN
    IF UniqueThrows(found) THEN Outcome(d, "error")
    ELSE IF found = {} THEN Outcome(d, "none")
    ELSE SyncKnownRepo(d, TheRow(found), args)

\* syncPullRequestCore as the second definition of part_000 has it: an
\* unknown repository throws
syncPullRequestCoreStrict(d, args) ==
    LET found == ReposByGithubRepoId(d, args.repo.githubRepoId) IN
    IF UniqueThrows(found) THEN Outcome(d, "error")
    ELSE IF found = {} THEN Outcome(d, "error")
    ELSE SyncKnownRepo(d, TheRow(found), args)

\* the pruner without its byRepo index: it looks at every repository's rows
pruneClosedPullRequestsForEveryRepo(d, repoId, openPrNumbers) ==
    LET openSet == {openPrNumbers[i] : i \in DOMAIN openPrNumbers}
    IN [d EXCEPT !.pullRequests =
            @ \ {pr \in @ : pr.prNumber \notin openSet}]

\* pruneClosedPullRequestsForRepo
pruneClosedPullRequestsForRepo(d, repoId, openPrNumbers) ==
    LET openSet == {openPrNumbers[i] : i \in DOMAIN openPrNumbers}
        prs == PullRequestsByRepo(d, repoId)
    IN [d EXCEPT !.pullRequests =
            @ \ {pr \in prs : pr.prNumber \notin openSet}]

-----------------------------------------------------------------------------
(* Mutations of app.ts *)

\* upsertRepo: a new row has no access token, a patch keeps the stored one
upsertRepo(d, githubRepoId, ownerUserId) ==
    LET found == ReposByGithubRepoId(d, githubRepoId) IN
    IF UniqueThrows(found) THEN Outcome(d, "error")
    ELSE IF found # {}
    THEN LET r == TheRow(found) IN
         Outcome([d EXCEPT !.repos = (@ \ {r}) \cup
                     {[r EXCEPT !.ownerUserId = ownerUserId]}], "ok")
    ELSE Outcome([d EXCEPT
                     !.repos = @ \cup
                         {[id |-> FreshId(d.usedIds.repos, <<githubRepoId>>),
                           githubRepoId |-> githubRepoId,
                           ownerUserId |-> ownerUserId,
                           githubAccessToken |-> FALSE]},
                     !.usedIds.repos = @ \cup
                         {FreshId(d.usedIds.repos, <<githubRepoId>>)}], "ok")

\* upsertContributor
upsertContributor(d, githubUserId, name, now) ==
    LET found == ContributorsByGithubUserId(d, githubUserId) IN
    IF UniqueThrows(found) THEN Outcome(d, "error")
    ELSE IF found # {}
    THEN LET c == TheRow(found) IN
         Outcome([d EXCEPT !.contributors = (@ \ {c}) \cup
                     {[c EXCEPT !.name = Coalesce(name, c.name)]}], "ok")
    ELSE Outcome([d EXCEPT
                     !.contributors = @ \cup
                         {[id |-> FreshId(d.usedIds.contributors,
                                          <<githubUserId>>),
                           githubUserId |-> githubUserId,
                           name |-> name,
                           createdAt |-> now]},
                     !.usedIds.contributors = @ \cup
                         {FreshId(d.usedIds.contributors, <<githubUserId>>)}],
                 "ok")

\* upsertRepoContributor
upsertRepoContributor(d, repoId, contributorId, role, now) ==
    LET found == RepoContributorsByRepoAndContributor(d, repoId, contributorId)
    IN
    IF UniqueThrows(found) THEN Outcome(d, "error")
    ELSE IF found # {}
    THEN LET rc == TheRow(found) IN
         Outcome([d EXCEPT !.repoContributors = (@ \ {rc}) \cup
                     {[rc EXCEPT !.role = role]}], "ok")
    ELSE Outcome([d EXCEPT
                     !.repoContributors = @ \cup
                         {[id |-> FreshId(d.usedIds.repoContributors,
                                          <<repoId, contributorId>>),
                           repoId |-> repoId,
                           contributorId |-> contributorId,
                           role |-> role,
                           prCount |-> 0,
                           linesChanged |-> 0,
                           createdAt |-> now]},
                     !.usedIds.repoContributors = @ \cup
                         {FreshId(d.usedIds.repoContributors,
                                  <<repoId, contributorId>>)}], "ok")

\* the caller of a mutation: a user id, or nobody signed in
Unauthenticated == "anonymous"
Callers == {"a1", "a2", Unauthenticated}

\* deleteRepoAndData: the owner deletes the repository, its PR rows and its
\* contributor links; contributors rows stay
deleteRepoAndData(d, repoId, caller) ==
    LET found == {r \in d.repos : r.id = repoId} IN
    IF caller = Unauthenticated THEN Outcome(d, "error")
    ELSE IF found = {} THEN Outcome(d, "none")
    ELSE IF TheRow(found).ownerUserId # caller THEN Outcome(d, "error")
    ELSE Outcome([d EXCEPT
                     !.pullRequests = @ \ PullRequestsByRepo(d, repoId),
                     !.repoContributors =
                         {rc \in @ : rc.repoId # repoId},
                     !.repos = @ \ found], "none")

-----------------------------------------------------------------------------
(* Arguments of the reconcile mutations (syncPullRequestArgs) *)

PullRequestArgs(numbers) ==
    [number : numbers, state : {"open", "closed"}, merged : BOOLEAN,
     mergedAt : {Undefined, 1}]

\* What GitHub reports of a PR: merged exactly when it has a merge time
GithubPullRequestArgs(numbers) ==
    {pr \in PullRequestArgs(numbers) :
        /\ pr.merged = (pr.mergedAt # Undefined)
        /\ pr.merged => pr.state = "closed"}

StatsArgs == {[additions |-> 0, deletions |-> 0],
              [additions |-> 1, deletions |-> 1]}

SyncArgs(githubRepoIds, userIds, names, prs, stats, times) ==
    [repo : [githubRepoId : githubRepoIds],
     author : [githubUserId : userIds, name : names],
     pullRequest : prs,
     stats : stats,
     syncedAt : times]

NoArgs ==
    [repo |-> [githubRepoId |-> ""],
     author |-> [githubUserId |-> "", name |-> UndefinedName],
     pullRequest |-> [number |-> 0, state |-> "closed", merged |-> FALSE,
                      mergedAt |-> Undefined],
     stats |-> [additions |-> 0, deletions |-> 0],
     syncedAt |-> 0]

\* What `last` keeps of a mutation that ran: its name, its arguments (of a
\* reconcile mutation) and how it ended
Ran(op, args, outcome) ==
    [op |-> op,
     args |-> IF outcome = "ok" THEN args
              ELSE [NoArgs EXCEPT !.repo = args.repo],
     outcome |-> outcome]

\* What `last` keeps of a prune: its arguments
PruneRan(repoId, openPrNumbers) ==
    [repoId |-> repoId, openPrNumbers |-> openPrNumbers]
        @@ Ran("prune", NoArgs, "none")

\* What `last` keeps of a deleteRepoAndData: its arguments and how it ended
DeleteRan(repoId, caller, outcome) ==
    [repoId |-> repoId, caller |-> caller]
        @@ Ran("deleteRepoAndData", NoArgs, outcome)

\* The model follows a PR key through MaxIncarnations documents
PrIdsLeft(d) ==
    \A i \in d.usedIds.pullRequests : i[Len(i)] <= MaxIncarnations

-----------------------------------------------------------------------------
(* createGithubClient.listPullRequests: the pagination loop *)

per_page == 50

\* octokit.pulls.list({ per_page, page }) on a repository holding total pull
\* requests, named by their place in GitHub's listing
PageOf(total, page) ==
    LET from == (page - 1) * per_page
        left == IF total > from THEN total - from ELSE 0
    IN [k \in 1..(IF left < per_page THEN left ELSE per_page) |-> from + k]

\* the loop that takes a full page for the last one
LastPageInclusive(data) == Len(data) <= per_page

\* if (data.length === 0) break; ... if (data.length < per_page) break
LastPage(data) == Len(data) = 0 \/ Len(data) < per_page

IdlePager == [pc |-> "idle", total |-> 0, page |-> 0, all |-> <<>>,
              pages |-> 0]

\* one turn of while (true): request the page, push it, break or go on
PagerRequest ==
    /\ pager.pc = "request"
    /\ LET data == PageOf(pager.total, pager.page) IN
       pager' = [pager EXCEPT
          !.all = @ \o data,
          !.pages = @ + 1,
          !.page = IF LastPage(data) THEN @ ELSE @ + 1,
          !.pc = IF LastPage(data) THEN "returned" ELSE "request"]
    /\ UNCHANGED <<storeVars, procVars, last, det, analysisVars, workflows,
                   dateNow>>

-----------------------------------------------------------------------------
(* The analysis workflows of prAgent.ts, one step per await *)

Analyses == {"w1", "w2"}    \* invocations of runRepoAnalysisWorkflow
Snapshots == {"s1"}         \* invocations of runRepoSnapshotWorkflow
Workflows == Analyses \cup Snapshots

\* Date.dateNow() when the first analysis mutation runs: later than the
\* syncedAt of every stored PR row
FirstAnalysisTime == 2

IdleWorkflow ==
    [pc |-> "idle", repoId |-> <<>>, guarded |-> FALSE, sessionId |-> <<>>,
     prs |-> {}, toAnalyze |-> <<>>, i |-> 0, prAnalysisId |-> <<>>]

InitAux ==
    /\ analysisSessions = {}
    /\ prAnalyses = {}
    /\ analysisSessionPRs = {}
    /\ workflows = [w \in Workflows |-> IdleWorkflow]
    /\ dateNow = FirstAnalysisTime
    /\ pager = IdlePager

WorkflowOver(w) == workflows[w].pc \in {"idle", "returned", "failed"}

\* listAnalysisSessionsForRepo
AnalysisSessionsByRepo(repoId) ==
    {ses \in analysisSessions : ses.repoId = repoId}

\* listPrAnalysesForRepo
PrAnalysesByRepo(repoId) == {a \in prAnalyses : a.repoId = repoId}

\* existingSessions.some((s) => s.status === "running")
hasRunning(repoId) ==
    \E ses \in AnalysisSessionsByRepo(repoId) : ses.status = "running"

\* latestByPrId: the analysis of the PR with the greatest updatedAt
LatestAnalyses(analyses, prId) ==
    {a \in analyses :
        /\ a.pullRequestId = prId
        /\ \A b \in analyses :
              b.pullRequestId = prId => b.updatedAt <= a.updatedAt}

\* prs.filter: no analysis yet, or not completed, or older than lastSyncedAt
Candidates(prs, analyses) ==
    {pr \in prs :
        \/ LatestAnalyses(analyses, pr.id) = {}
        \/ \E a \in LatestAnalyses(analyses, pr.id) :
              \/ a.status # "completed"
              \/ a.updatedAt < pr.lastSyncedAt}

\* the rows of a query result, in the order of their PR numbers
RECURSIVE SeqOfRows(_)
SeqOfRows(rows) ==
    IF rows = {} THEN <<>>
    ELSE LET r == CHOOSE x \in rows : \A y \in rows : x.prNumber <= y.prNumber
         IN <<r>> \o SeqOfRows(rows \ {r})

\* candidates.slice(0, 10)
Slice10(seq) == SubSeq(seq, 1, IF Len(seq) < 10 THEN Len(seq) ELSE 10)

\* the part of deleteRepoAndData on the analysis tables: the sessions of
\* the repository with their PR links, its PR analyses, and the session
\* links of its PR rows
SessionPRsAfterDelete(d, repoId) ==
    {spr \in analysisSessionPRs :
        /\ \A ses \in AnalysisSessionsByRepo(repoId) :
              spr.analysisSessionId # ses.id
        /\ \A pr \in PullRequestsByRepo(d, repoId) :
              spr.pullRequestId # pr.id}

\* runFullAnalysisWorkflow (the trigger of the sync, the dashboard button):
\* it schedules one workflow of each kind
RunFullAnalysisWorkflow(repoId, analysis, snapshot) ==
    /\ workflows[analysis].pc = "idle"
    /\ workflows[snapshot].pc = "idle"
    /\ workflows' = [workflows EXCEPT
          ![analysis] = [IdleWorkflow EXCEPT !.pc = "getRepo",
                                             !.repoId = repoId],
          ![snapshot] = [IdleWorkflow EXCEPT !.pc = "getRepo",
                                             !.repoId = repoId]]
    /\ UNCHANGED <<storeVars, procVars, last, det, analysisVars, dateNow,
                   pager>>

\* runRepoAnalysisWorkflow called on its own (it is a public action)
RunRepoAnalysisWorkflow(repoId, analysis) ==
    /\ workflows[analysis].pc = "idle"
    /\ workflows' = [workflows EXCEPT
          ![analysis] = [IdleWorkflow EXCEPT !.pc = "getRepo",
                                             !.repoId = repoId]]
    /\ UNCHANGED <<storeVars, procVars, last, det, analysisVars, dateNow,
                   pager>>

\* getRepo of either workflow: if (!repo) return
WorkflowGetRepo(w) ==
    /\ workflows[w].pc = "getRepo"
    /\ workflows' = [workflows EXCEPT
          ![w].pc = IF {r \in repos : r.id = workflows[w].repoId} = {}
                    THEN "returned"
                    ELSE IF w \in Analyses THEN "guard" ELSE "read"]
    /\ UNCHANGED <<storeVars, procVars, last, det, analysisVars, dateNow,
                   pager>>

\* runRepoAnalysisWorkflow: the overlap guard
AnalysisGuard(w) ==
    /\ w \in Analyses
    /\ workflows[w].pc = "guard"
    /\ workflows' = [workflows EXCEPT
          ![w].pc = IF hasRunning(workflows[w].repoId) THEN "returned"
                    ELSE "listPrs",
          ![w].guarded = hasRunning(workflows[w].repoId)]
    /\ UNCHANGED <<storeVars, procVars, last, det, analysisVars, dateNow,
                   pager>>

\* runRepoAnalysisWorkflow: listPullRequestsForRepo
AnalysisListPrs(w) ==
    /\ w \in Analyses
    /\ workflows[w].pc = "listPrs"
    /\ workflows' = [workflows EXCEPT
          ![w].pc = "listAnalyses",
          ![w].prs = PullRequestsByRepo(DB, workflows[w].repoId)]
    /\ UNCHANGED <<storeVars, procVars, last, det, analysisVars, dateNow,
                   pager>>

\* runRepoAnalysisWorkflow: listPrAnalysesForRepo and the candidates
AnalysisListAnalyses(w) ==
    /\ w \in Analyses
    /\ workflows[w].pc = "listAnalyses"
    /\ LET candidates == Candidates(workflows[w].prs,
                                    PrAnalysesByRepo(workflows[w].repoId))
       IN workflows' = [workflows EXCEPT
             ![w].pc = IF candidates = {} THEN "returned"
                       ELSE "createSession",
             ![w].prs = {},
             ![w].toAnalyze = Slice10(SeqOfRows(candidates))]
    /\ UNCHANGED <<storeVars, procVars, last, det, analysisVars, dateNow,
                   pager>>

\* runRepoSnapshotWorkflow: the three queries of Promise.all
SnapshotRead(w) ==
    /\ w \in Snapshots
    /\ workflows[w].pc = "read"
    /\ workflows' = [workflows EXCEPT ![w].pc = "createSession"]
    /\ UNCHANGED <<storeVars, procVars, last, det, analysisVars, dateNow,
                   pager>>

\* createAnalysisSession, status "running", by either workflow
WorkflowCreateSession(w) ==
    /\ workflows[w].pc = "createSession"
    /\ analysisSessions' = analysisSessions \cup
          {[id |-> <<"session", w>>,
            repoId |-> workflows[w].repoId,
            sessionType |-> IF w \in Analyses THEN "pr_auto"
                            ELSE "full_repo",
            status |-> "running"]}
    /\ workflows' = [workflows EXCEPT
          ![w].pc = IF w \in Analyses THEN "createPrAnalysis" ELSE "agent",
          ![w].sessionId = <<"session", w>>,
          ![w].i = 1]
    /\ UNCHANGED <<storeVars, procVars, last, det, prAnalyses,
                   analysisSessionPRs, dateNow, pager>>

\* runRepoAnalysisWorkflow: createPrAnalysis for the PR the loop is at
AnalysisCreatePrAnalysis(w) ==
    /\ w \in Analyses
    /\ workflows[w].pc = "createPrAnalysis"
    /\ prAnalyses' = prAnalyses \cup
          {[id |-> <<"prAnalysis", w, workflows[w].i>>,
            repoId |-> workflows[w].repoId,
            pullRequestId |-> workflows[w].toAnalyze[workflows[w].i].id,
            status |-> "running",
            updatedAt |-> dateNow]}
    /\ dateNow' = dateNow + 1
    /\ workflows' = [workflows EXCEPT
          ![w].pc = "addAnalysisSessionPR",
          ![w].prAnalysisId = <<"prAnalysis", w, workflows[w].i>>]
    /\ UNCHANGED <<storeVars, procVars, last, det, analysisSessions,
                   analysisSessionPRs, pager>>

\* runRepoAnalysisWorkflow: addAnalysisSessionPR
AnalysisAddSessionPR(w) ==
    /\ w \in Analyses
    /\ workflows[w].pc = "addAnalysisSessionPR"
    /\ analysisSessionPRs' = analysisSessionPRs \cup
          {[id |-> <<"sessionPR", w, workflows[w].i>>,
            analysisSessionId |-> workflows[w].sessionId,
            pullRequestId |-> workflows[w].toAnalyze[workflows[w].i].id]}
    /\ workflows' = [workflows EXCEPT ![w].pc = "agent"]
    /\ UNCHANGED <<storeVars, procVars, last, det, analysisSessions,
                   prAnalyses, dateNow, pager>>

\* generateText returns
WorkflowAgent(w) ==
    /\ workflows[w].pc = "agent"
    /\ workflows' = [workflows EXCEPT
          ![w].pc = IF w \in Analyses THEN "updatePrAnalysisDetails"
                    ELSE "complete"]
    /\ UNCHANGED <<storeVars, procVars, last, det, analysisVars, dateNow,
                   pager>>

\* generateText throws (the model's API fails, the action's time limit):
\* nothing catches it, the action throws
WorkflowAgentFails(w) ==
    /\ workflows[w].pc = "agent"
    /\ workflows' = [workflows EXCEPT ![w].pc = "failed"]
    /\ UNCHANGED <<storeVars, procVars, last, det, analysisVars, dateNow,
                   pager>>

\* runRepoAnalysisWorkflow: updatePrAnalysisDetails, status "completed";
\* db.patch of a deleted document throws
AnalysisUpdateDetails(w) ==
    /\ w \in Analyses
    /\ workflows[w].pc = "updatePrAnalysisDetails"
    /\ LET found == {a \in prAnalyses : a.id = workflows[w].prAnalysisId}
           more == workflows[w].i < Len(workflows[w].toAnalyze)
       IN IF found = {}
          THEN /\ workflows' = [workflows EXCEPT ![w].pc = "failed"]
               /\ UNCHANGED <<prAnalyses, dateNow>>
          ELSE /\ prAnalyses' = (prAnalyses \ found) \cup
                     {[a EXCEPT !.status = "completed", !.updatedAt = dateNow] :
                         a \in found}
               /\ dateNow' = dateNow + 1
               /\ workflows' = [workflows EXCEPT
                     ![w].pc = IF more THEN "createPrAnalysis"
                               ELSE "complete",
                     ![w].i = @ + 1]
    /\ UNCHANGED <<storeVars, procVars, last, det, analysisSessions,
                   analysisSessionPRs, pager>>

\* updateAnalysisSessionStatus, status "completed", by either workflow;
\* db.patch of a deleted document throws
WorkflowComplete(w) ==
    /\ workflows[w].pc = "complete"
    /\ LET found == {ses \in analysisSessions :
                        ses.id = workflows[w].sessionId}
       IN IF found = {}
          THEN /\ workflows' = [workflows EXCEPT ![w].pc = "failed"]
               /\ UNCHANGED analysisSessions
          ELSE /\ analysisSessions' = (analysisSessions \ found) \cup
                     {[ses EXCEPT !.status = "completed"] : ses \in found}
               /\ workflows' = [workflows EXCEPT ![w].pc = "returned"]
    /\ UNCHANGED <<storeVars, procVars, last, det, prAnalyses,
                   analysisSessionPRs, dateNow, pager>>

WorkflowStep(w) ==
    \/ WorkflowGetRepo(w)
    \/ AnalysisGuard(w)
    \/ AnalysisListPrs(w)
    \/ AnalysisListAnalyses(w)
    \/ SnapshotRead(w)
    \/ WorkflowCreateSession(w)
    \/ AnalysisCreatePrAnalysis(w)
    \/ AnalysisAddSessionPR(w)
    \/ WorkflowAgent(w)
    \/ WorkflowAgentFails(w)
    \/ AnalysisUpdateDetails(w)
    \/ WorkflowComplete(w)

-----------------------------------------------------------------------------
(* The mutations as steps *)

\* syncPullRequestFromGithubMutation: the public reconcile mutation
SyncPullRequestFromGithubMutation(args) ==
    LET res == syncPullRequestCore(DB, args) IN
    /\ PrIdsLeft(res.db)
    /\ Commit(res.db)
    /\ last' = Ran("sync", args, res.outcome)
    /\ UNCHANGED <<procVars, det,
                   auxVars>>

\* the reconcile mutation of the second definition
SyncPullRequestFromGithubStrict(args) ==
    LET res == syncPullRequestCoreStrict(DB, args) IN
    /\ PrIdsLeft(res.db)
    /\ Commit(res.db)
    /\ last' = Ran("syncStrict", args, res.outcome)
    /\ UNCHANGED <<procVars, det,
                   auxVars>>

PruneMutation(repoId, openPrNumbers) ==
    /\ Commit(pruneClosedPullRequestsForRepo(DB, repoId, openPrNumbers))
    /\ last' = PruneRan(repoId, openPrNumbers)
    /\ UNCHANGED <<procVars, det,
                   auxVars>>

DeleteRepoAndData(repoId, caller) ==
    LET res == deleteRepoAndData(DB, repoId, caller) IN
    /\ Commit(res.db)
    /\ IF res.db.repos # repos
       THEN /\ analysisSessions' =
                 analysisSessions \ AnalysisSessionsByRepo(repoId)
            /\ prAnalyses' = prAnalyses \ PrAnalysesByRepo(repoId)
            /\ analysisSessionPRs' = SessionPRsAfterDelete(DB, repoId)
       ELSE UNCHANGED analysisVars
    /\ last' = DeleteRan(repoId, caller, res.outcome)
    /\ UNCHANGED <<procVars, det, workflows, dateNow, pager>>

UpsertRepo(g, owner) ==
    LET res == upsertRepo(DB, g, owner) IN
    /\ Commit(res.db)
    /\ last' = Ran("upsertRepo", NoArgs, res.outcome)
    /\ UNCHANGED <<procVars, det,
                   auxVars>>

UpsertContributor(u, name, now) ==
    LET res == upsertContributor(DB, u, name, now) IN
    /\ Commit(res.db)
    /\ last' = Ran("upsertContributor", NoArgs, res.outcome)
    /\ UNCHANGED <<procVars, det,
                   auxVars>>

UpsertRepoContributor(repoId, contributorId, role, now) ==
    LET res == upsertRepoContributor(DB, repoId, contributorId, role, now) IN
    /\ Commit(res.db)
    /\ last' = Ran("upsertRepoContributor", NoArgs, res.outcome)
    /\ UNCHANGED <<procVars, det,
                   auxVars>>

-----------------------------------------------------------------------------
(* GitHub as the sync sees it *)

UpstreamStates == {"absent", "open", "closed", "merged"}

\* The author of each upstream PR, and the display name GitHub reports
UpstreamUser(n) == IF n = 1 THEN "u1" ELSE "u2"
UpstreamName(u) == IF u = "u1" THEN "Ann" ELSE UndefinedName

\* SeqOfDescending(S): the numbers of S, highest first (GitHub lists the
\* newest PR first)
RECURSIVE SeqOfDescending(_)
SeqOfDescending(S) ==
    IF S = {} THEN <<>>
    ELSE LET m == CHOOSE x \in S : \A y \in S : y <= x
         IN <<m>> \o SeqOfDescending(S \ {m})

Range(seq) == {seq[i] : i \in DOMAIN seq}

\* github.listPullRequests (state: "all"): the PRs that exist upstream
listPullRequests(g) ==
    SeqOfDescending({n \in PrNumbers : upstream[g][n] # "absent"})

\* allPullRequests.filter(pr => pr.state === "open"), as numbers
OpenOnly(g, all) == SelectSeq(all, LAMBDA n : upstream[g][n] = "open")

\* github.getPullRequest: the detail of PR n as GitHub has it now
getPullRequest(g, n) ==
    [number |-> n,
     state |-> IF upstream[g][n] = "open" THEN "open" ELSE "closed",
     merged_at |-> IF upstream[g][n] = "merged" THEN 1 ELSE Undefined,
     user |-> UpstreamUser(n)]

NoFullPr == [number |-> 0, state |-> "closed", merged_at |-> Undefined,
             user |-> ""]

\* The arguments both callers build from a fetched PR
ArgsOfFullPr(githubRepoId, fullPr, syncedAt) ==
    [repo |-> [githubRepoId |-> githubRepoId],
     author |-> [githubUserId |-> fullPr.user,
                 name |-> UpstreamName(fullPr.user)],
     pullRequest |-> [number |-> fullPr.number,
                      state |-> IF fullPr.state = "open" THEN "open"
                                ELSE "closed",
                      merged |-> (fullPr.merged_at # Undefined),
                      mergedAt |-> fullPr.merged_at],
     stats |-> [additions |-> 1, deletions |-> 1],
     syncedAt |-> syncedAt]

\* A PR changes state on GitHub: it is opened, closed, merged or reopened
UpstreamChange(g, n, to) ==
    /\ upstreamChanges < MaxUpstreamChanges
    /\ \/ upstream[g][n] = "absent" /\ to = "open"
       \/ upstream[g][n] = "open" /\ to \in {"closed", "merged"}
       \/ upstream[g][n] = "closed" /\ to = "open"
    /\ upstream' = [upstream EXCEPT ![g][n] = to]
    /\ upstreamChanges' = upstreamChanges + 1
    /\ UNCHANGED <<storeVars, cycles, runs, adder, scheduled, last, det,
                   auxVars>>

-----------------------------------------------------------------------------
(* The change detector of syncRepoPullRequestsFromGithub *)

\* the detector that compares the length of the fetched list, not the size
\* of its set
ChangedByLength(existingNumbers, openPrNumbers) ==
    LET openSet == Range(openPrNumbers) IN
    IF Cardinality(existingNumbers) # Len(openPrNumbers) THEN TRUE
    ELSE IF \E num \in openSet : num \notin existingNumbers THEN TRUE
    ELSE \E num \in existingNumbers : num \notin openSet

Changed(existingNumbers, openPrNumbers) ==
    LET openSet == Range(openPrNumbers) IN
    IF Cardinality(existingNumbers) # Cardinality(openSet) THEN TRUE
    ELSE IF \E num \in openSet : num \notin existingNumbers THEN TRUE
    ELSE \E num \in existingNumbers : num \notin openSet

\* the trigger without its guard
ScheduledAfterUnguarded(changed, n) == n + 1

\* runFullAnalysisWorkflow jobs scheduled once the detector has answered
ScheduledAfter(changed, n) == IF changed THEN n + 1 ELSE n

-----------------------------------------------------------------------------
(* syncRepoPullRequestsFromGithub, one step per await *)

Cycles == {"c1", "c2"}
OwnerUserIds == {"a1"}

IdleCycle ==
    [pc |-> "idle", repoId |-> <<>>, githubRepoId |-> "",
     existingPrs |-> {}, existingNumbers |-> {}, existingOpen |-> {},
     list |-> <<>>, i |-> 0,
     fullPr |-> NoFullPr, overlapped |-> FALSE, rowsChanged |-> FALSE,
     openAtEnd |-> {}, changed |-> FALSE, triggered |-> 0]

Over(c) == cycles[c].pc \in {"idle", "done", "skipped", "failed"}
Running(repoId) == {c \in Cycles : ~Over(c) /\ cycles[c].repoId = repoId}

OpenNumbers(d, repoId) ==
    {p.prNumber : p \in {q \in PullRequestsByRepo(d, repoId) :
                            q.status = "open"}}

\* scheduleGithubSyncAllRepos: one sync action per repos row
ScheduleGithubSyncAllRepos(slots) ==
    LET free == {c \in slots : Over(c)} IN
    /\ repos # {}
    /\ runs < MaxRuns
    /\ Cardinality(repos) <= Cardinality(free)
    /\ LET slot == CHOOSE f \in [repos -> free] :
                       \A r1, r2 \in repos : f[r1] = f[r2] => r1 = r2
       IN cycles' =
            [c \in Cycles |->
                IF \E r \in repos : slot[r] = c
                THEN LET r == CHOOSE r \in repos : slot[r] = c IN
                     [IdleCycle EXCEPT !.pc = "start", !.repoId = r.id,
                                       !.overlapped = (Running(r.id) # {})]
                ELSE IF ~Over(c)
                        /\ \E r \in repos : r.id = cycles[c].repoId
                THEN [cycles[c] EXCEPT !.overlapped = TRUE]
                ELSE cycles[c]]
    /\ runs' = runs + 1
    /\ UNCHANGED <<storeVars, upstream, upstreamChanges, adder, scheduled,
                   last, det,
                   auxVars>>

\* the check that skips a missing row only
NoRow(found) == found = {}

\* if (!repo) return; if (!token) return
NoCredential(found) == found = {} \/ ~TheRow(found).githubAccessToken

\* getRepo and the credential check
CycleGetRepo(c) ==
    /\ cycles[c].pc = "start"
    /\ LET found == {r \in repos : r.id = cycles[c].repoId} IN
       IF NoCredential(found)
       THEN cycles' = [cycles EXCEPT ![c].pc = "skipped"]
       ELSE cycles' = [cycles EXCEPT
                          ![c].pc = "snapshot",
                          ![c].githubRepoId = TheRow(found).githubRepoId]
    /\ UNCHANGED <<storeVars, upstream, upstreamChanges, runs, adder,
                   scheduled, last, det,
                   auxVars>>

\* listPullRequestsForRepo: the snapshot of the locally known PR numbers
CycleSnapshot(c) ==
    /\ cycles[c].pc = "snapshot"
    /\ cycles' = [cycles EXCEPT
          ![c].pc = "list",
          ![c].existingPrs = PullRequestsByRepo(DB, cycles[c].repoId),
          ![c].existingNumbers =
              {p.prNumber : p \in PullRequestsByRepo(DB, cycles[c].repoId)},
          ![c].existingOpen = OpenNumbers(DB, cycles[c].repoId)]
    /\ UNCHANGED <<storeVars, upstream, upstreamChanges, runs, adder,
                   scheduled, last, det,
                   auxVars>>

\* github.listPullRequests and the filter on open PRs
CycleList(c) ==
    /\ cycles[c].pc = "list"
    /\ LET g == cycles[c].githubRepoId
           open == OpenOnly(g, listPullRequests(g))
       IN cycles' = [cycles EXCEPT
             ![c].list = open,
             ![c].i = 1,
             ![c].pc = IF open = <<>> THEN "prune" ELSE "detail"]
    /\ UNCHANGED <<storeVars, upstream, upstreamChanges, runs, adder,
                   scheduled, last, det,
                   auxVars>>

\* github.getPullRequest for the PR the loop is at
CycleDetail(c) ==
    /\ cycles[c].pc = "detail"
    /\ cycles' = [cycles EXCEPT
          ![c].fullPr = getPullRequest(cycles[c].githubRepoId,
                                       cycles[c].list[cycles[c].i]),
          ![c].pc = "reconcile"]
    /\ UNCHANGED <<storeVars, upstream, upstreamChanges, runs, adder,
                   scheduled, last, det,
                   auxVars>>

\* a failing GitHub call that takes every running cycle down with it
CycleFetchFailsAll(c) ==
    /\ cycles[c].pc \in {"list", "detail"}
    /\ cycles' = [k \in Cycles |->
                     IF Over(k) THEN cycles[k]
                     ELSE [cycles[k] EXCEPT !.pc = "failed"]]
    /\ UNCHANGED <<storeVars, upstream, upstreamChanges, runs, adder,
                   scheduled, last, det,
                   auxVars>>

\* a GitHub call of the cycle fails: the action throws
CycleFetchFails(c) ==
    /\ cycles[c].pc \in {"list", "detail"}
    /\ cycles' = [cycles EXCEPT ![c].pc = "failed"]
    /\ UNCHANGED <<storeVars, upstream, upstreamChanges, runs, adder,
                   scheduled, last, det,
                   auxVars>>

\* runMutation(internal.github.syncPullRequestFromGithub) for that PR
CycleReconcile(c) ==
    /\ cycles[c].pc = "reconcile"
    /\ LET args == ArgsOfFullPr(cycles[c].githubRepoId, cycles[c].fullPr, 1)
           res == syncPullRequestCore(DB, args)
           more == cycles[c].i < Len(cycles[c].list)
       IN /\ PrIdsLeft(res.db)
          /\ Commit(res.db)
          /\ last' = Ran("sync", args, res.outcome)
          /\ cycles' = [cycles EXCEPT
                ![c].pc = IF res.outcome = "error" THEN "failed"
                          ELSE IF more THEN "detail" ELSE "prune",
                ![c].i = @ + 1,
                ![c].rowsChanged =
                    @ \/ (Cardinality(res.db.pullRequests)
                            # Cardinality(pullRequests))]
    /\ UNCHANGED <<upstream, upstreamChanges, runs, adder, scheduled, det,
                   auxVars>>

\* runMutation(internal.github.pruneClosedPullRequestsForRepo)
CyclePrune(c) ==
    /\ cycles[c].pc = "prune"
    /\ LET d == pruneClosedPullRequestsForRepo(DB, cycles[c].repoId,
                                               cycles[c].list)
       IN /\ Commit(d)
          /\ cycles' = [cycles EXCEPT
                ![c].pc = "detect",
                ![c].rowsChanged = @ \/ (d.pullRequests # pullRequests)]
    /\ last' = PruneRan(cycles[c].repoId, cycles[c].list)
    /\ UNCHANGED <<upstream, upstreamChanges, runs, adder, scheduled, det,
                   auxVars>>

\* a change detection that compares the fetched list with the table as the
\* cycle's writes left it
CycleDetectPostWrite(c) ==
    /\ cycles[c].pc = "detect"
    /\ LET changed == Changed({p.prNumber :
                                  p \in PullRequestsByRepo(DB, cycles[c].repoId)},
                              cycles[c].list) IN
       /\ scheduled' = ScheduledAfter(changed, scheduled)
       /\ cycles' = [cycles EXCEPT
             ![c].pc = "done",
             ![c].changed = changed,
             ![c].triggered = scheduled' - scheduled,
             ![c].openAtEnd = OpenNumbers(DB, cycles[c].repoId)]
    /\ UNCHANGED <<storeVars, upstream, upstreamChanges, runs, adder, last,
                   det,
                   auxVars>>

\* the change detection and the trigger
CycleDetect(c) ==
    /\ cycles[c].pc = "detect"
    /\ LET changed == Changed(cycles[c].existingNumbers, cycles[c].list) IN
       /\ scheduled' = ScheduledAfter(changed, scheduled)
       /\ cycles' = [cycles EXCEPT
             ![c].pc = "done",
             ![c].changed = changed,
             ![c].triggered = scheduled' - scheduled,
             ![c].openAtEnd = OpenNumbers(DB, cycles[c].repoId)]
    /\ UNCHANGED <<storeVars, upstream, upstreamChanges, runs, adder, last,
                   det,
                   auxVars>>

\* scheduler.runAfter throws: nothing catches it, the action throws
CycleScheduleFails(c) ==
    /\ cycles[c].pc = "detect"
    /\ Changed(cycles[c].existingNumbers, cycles[c].list)
    /\ cycles' = [cycles EXCEPT
          ![c].pc = "failed",
          ![c].changed = TRUE,
          ![c].openAtEnd = OpenNumbers(DB, cycles[c].repoId)]
    /\ UNCHANGED <<storeVars, upstream, upstreamChanges, runs, adder,
                   scheduled, last, det,
                   auxVars>>

\* the action is interrupted between two awaits of the loop or before the
\* prune (a mutation call that throws, the action's time limit)
CycleAborts(c) ==
    /\ cycles[c].pc \in {"detail", "reconcile", "prune"}
    /\ cycles' = [cycles EXCEPT ![c].pc = "failed"]
    /\ UNCHANGED <<storeVars, upstream, upstreamChanges, runs, adder,
                   scheduled, last, det,
                   auxVars>>

-----------------------------------------------------------------------------
(* addFromGithub of repos.ts, one step per await *)

\* saveGithubRepo: a new row carries no access token
saveGithubRepo(d, githubRepoId, ownerUserId) ==
    LET found == ReposByGithubRepoId(d, githubRepoId) IN
    IF UniqueThrows(found) THEN Outcome(d, "error")
    ELSE IF found # {}
    THEN LET r == TheRow(found) IN
         Outcome([d EXCEPT !.repos = (@ \ {r}) \cup
                     {[r EXCEPT !.ownerUserId = ownerUserId]}], "ok")
    ELSE Outcome([d EXCEPT
                     !.repos = @ \cup
                         {[id |-> FreshId(d.usedIds.repos, <<githubRepoId>>),
                           githubRepoId |-> githubRepoId,
                           ownerUserId |-> ownerUserId,
                           githubAccessToken |-> FALSE]},
                     !.usedIds.repos = @ \cup
                         {FreshId(d.usedIds.repos, <<githubRepoId>>)}], "ok")

IdleAdder == [pc |-> "idle", calls |-> 0, githubRepoId |-> "", owner |-> "",
              list |-> <<>>, i |-> 0, fullPr |-> NoFullPr]

\* getOrCreateUser and github.getRepo
AddFromGithub(g, owner) ==
    /\ adder.pc \in {"idle", "done", "failed"}
    /\ adder.calls < MaxAdds
    /\ adder' = [IdleAdder EXCEPT !.pc = "save", !.calls = adder.calls + 1,
                                  !.githubRepoId = g, !.owner = owner]
    /\ UNCHANGED <<storeVars, upstream, upstreamChanges, cycles, runs,
                   scheduled, last, det,
                   auxVars>>

\* runMutation(internal.repos.saveGithubRepo)
AddSave ==
    /\ adder.pc = "save"
    /\ LET res == saveGithubRepo(DB, adder.githubRepoId, adder.owner) IN
       /\ Commit(res.db)
       /\ last' = Ran("saveGithubRepo", NoArgs, res.outcome)
       /\ adder' = [adder EXCEPT
             !.pc = IF res.outcome = "error" THEN "failed" ELSE "list"]
    /\ UNCHANGED <<upstream, upstreamChanges, cycles, runs, scheduled, det,
                   auxVars>>

\* github.listPullRequests: PRs of every state
AddList ==
    /\ adder.pc = "list"
    /\ LET all == listPullRequests(adder.githubRepoId) IN
       adder' = [adder EXCEPT
          !.list = all,
          !.i = 1,
          !.pc = IF all = <<>> THEN "done" ELSE "detail"]
    /\ UNCHANGED <<storeVars, upstream, upstreamChanges, cycles, runs,
                   scheduled, last, det,
                   auxVars>>

\* github.getPullRequest for the PR the loop is at
AddDetail ==
    /\ adder.pc = "detail"
    /\ adder' = [adder EXCEPT
          !.fullPr = getPullRequest(adder.githubRepoId, adder.list[adder.i]),
          !.pc = "reconcile"]
    /\ UNCHANGED <<storeVars, upstream, upstreamChanges, cycles, runs,
                   scheduled, last, det,
                   auxVars>>

\* a GitHub call of addFromGithub fails: the action throws
AddFetchFails ==
    /\ adder.pc \in {"list", "detail"}
    /\ adder' = [adder EXCEPT !.pc = "failed"]
    /\ UNCHANGED <<storeVars, upstream, upstreamChanges, cycles, runs,
                   scheduled, last, det,
                   auxVars>>

\* runMutation(internal.github.syncPullRequestFromGithub) for that PR
AddReconcile ==
    /\ adder.pc = "reconcile"
    /\ LET args == ArgsOfFullPr(adder.githubRepoId, adder.fullPr, 1)
           res == syncPullRequestCore(DB, args)
           more == adder.i < Len(adder.list)
       IN /\ PrIdsLeft(res.db)
          /\ Commit(res.db)
          /\ last' = Ran("sync", args, res.outcome)
          /\ adder' = [adder EXCEPT
                !.pc = IF res.outcome = "error" THEN "failed"
                       ELSE IF more THEN "detail" ELSE "done",
                !.i = @ + 1]
    /\ UNCHANGED <<upstream, upstreamChanges, cycles, runs, scheduled, det,
                   auxVars>>

\* The repository's owner stores an access token on the repos row
\* (githubAccessToken of the schema; no function of the code writes it)
ConfigureToken(repoId) ==
    /\ \E r \in repos :
          /\ r.id = repoId
          /\ ~r.githubAccessToken
          /\ repos' = (repos \ {r}) \cup
                          {[r EXCEPT !.githubAccessToken = TRUE]}
    /\ last' = Ran("configureToken", NoArgs, "ok")
    /\ UNCHANGED <<contributors, pullRequests, repoContributors, usedIds,
                   procVars, det,
                   auxVars>>

-----------------------------------------------------------------------------
(* Initial state: an empty deployment *)

NoDetection == [existingNumbers |-> {}, openPrNumbers |-> <<>>,
                changed |-> FALSE, pc |-> "none"]


Init ==
    /\ repos = {}
    /\ contributors = {}
    /\ pullRequests = {}
    /\ repoContributors = {}
    /\ usedIds = [repos |-> {}, contributors |-> {}, pullRequests |-> {},
                 repoContributors |-> {}]
    /\ upstream \in [{"g1"} -> [PrNumbers -> UpstreamStates]]
    /\ upstreamChanges = 0
    /\ cycles = [c \in Cycles |-> IdleCycle]
    /\ runs = 0
    /\ adder = IdleAdder
    /\ scheduled = 0
    /\ last = Ran("none", NoArgs, "none")
    /\ det = NoDetection
    /\ InitAux

CycleStep(c) ==
    \/ CycleGetRepo(c)
    \/ CycleSnapshot(c)
    \/ CycleList(c)
    \/ CycleDetail(c)
    \/ CycleFetchFails(c)
    \/ CycleReconcile(c)
    \/ CyclePrune(c)
    \/ CycleDetect(c)
    \/ CycleScheduleFails(c)

AddStep ==
    \/ AddSave
    \/ AddList
    \/ AddDetail
    \/ AddFetchFails
    \/ AddReconcile

\* Sync cycles of one repository, possibly overlapping, against a changing
\* GitHub
Next ==
    \/ \E o \in OwnerUserIds : UpsertRepo("g1", o)
    \/ \E r \in repos : ConfigureToken(r.id)
    \/ \E n \in PrNumbers, to \in UpstreamStates : UpstreamChange("g1", n, to)
    \/ ScheduleGithubSyncAllRepos(Cycles)
    \/ \E c \in Cycles : CycleStep(c)

Spec == Init /\ [][Next]_vars

\* A repository linked by addFromGithub and then synced, one cycle at a time
NextAdd ==
    \/ \E o \in OwnerUserIds : AddFromGithub("g1", o)
    \/ AddStep
    \/ \E r \in repos : ConfigureToken(r.id)
    \/ \E n \in PrNumbers, to \in UpstreamStates : UpstreamChange("g1", n, to)
    \/ ScheduleGithubSyncAllRepos({"c1"})
    \/ CycleStep("c1")

SpecAdd == Init /\ [][NextAdd]_vars

\* The change detector on its own: any set of stored numbers against any
\* fetched list, duplicates and any order included
DetNumbers == {1, 2, 3}
DetLists ==
    UNION {[1..k -> DetNumbers] : k \in 0..Cardinality(DetNumbers)}

InitChanged ==
    /\ repos = {}
    /\ contributors = {}
    /\ pullRequests = {}
    /\ repoContributors = {}
    /\ usedIds = [repos |-> {}, contributors |-> {}, pullRequests |-> {},
                  repoContributors |-> {}]
    /\ upstream = [g \in {"g1"} |-> [n \in PrNumbers |-> "absent"]]
    /\ upstreamChanges = 0
    /\ cycles = [c \in Cycles |-> IdleCycle]
    /\ runs = 0
    /\ adder = IdleAdder
    /\ scheduled = 0
    /\ last = Ran("none", NoArgs, "none")
    /\ det \in [existingNumbers : SUBSET DetNumbers, openPrNumbers : DetLists,
                 changed : {FALSE}, pc : {"detect"}]
    /\ InitAux

DetectChange ==
    /\ det.pc = "detect"
    /\ det' = [det EXCEPT
          !.changed = Changed(det.existingNumbers, det.openPrNumbers),
          !.pc = "done"]
    /\ UNCHANGED <<storeVars, procVars, last, auxVars>>

NextChanged == DetectChange

SpecChanged == InitChanged /\ [][NextChanged]_vars

\* A deployment with the repositories g1 and g2 linked (two upsertRepo calls)
InitLinked ==
    /\ repos = {[id |-> <<g, 1>>, githubRepoId |-> g, ownerUserId |-> "a1",
                 githubAccessToken |-> FALSE] : g \in LinkableRepoIds}
    /\ contributors = {}
    /\ pullRequests = {}
    /\ repoContributors = {}
    /\ usedIds = [repos |-> {<<g, 1>> : g \in LinkableRepoIds},
                 contributors |-> {}, pullRequests |-> {},
                 repoContributors |-> {}]
    /\ upstream = [g \in {"g1"} |-> [n \in PrNumbers |-> "absent"]]
    /\ upstreamChanges = 0
    /\ cycles = [c \in Cycles |-> IdleCycle]
    /\ runs = 0
    /\ adder = IdleAdder
    /\ scheduled = 0
    /\ last = Ran("none", NoArgs, "none")
    /\ det = NoDetection
    /\ InitAux

\* The reconciler under direct calls of the reconcile mutations with any
\* field values, for one PR number of one linked and one unlinked repository
FieldArgs ==
    SyncArgs({"g1", "g3"}, GithubUserIds, Names, PullRequestArgs({1}),
             StatsArgs, {1})

\* Direct calls of the reconcile mutation of the second definition
StrictArgs ==
    SyncArgs({"g1", "g3"}, GithubUserIds, {UndefinedName},
             {[number |-> 1, state |-> "open", merged |-> FALSE,
               mergedAt |-> Undefined]},
             {[additions |-> 1, deletions |-> 1]}, {1})

NextFields ==
    \/ \E args \in FieldArgs : SyncPullRequestFromGithubMutation(args)
    \/ \E args \in StrictArgs : SyncPullRequestFromGithubStrict(args)
    \/ \E u \in GithubUserIds, name \in Names :
          UpsertContributor(u, name, 1)

SpecFields == InitLinked /\ [][NextFields]_vars

\* The contributor upsert under every value v.optional(v.string()) admits
\* for the name: absent, the empty string, or a non-empty string
EmptyName == ""
AuthorNames == {UndefinedName, EmptyName, "Ann", "Bob"}

NameArgs ==
    SyncArgs({"g1"}, GithubUserIds, AuthorNames,
             {[number |-> 1, state |-> "open", merged |-> FALSE,
               mergedAt |-> Undefined]},
             {[additions |-> 1, deletions |-> 1]}, {1})

NextNames ==
    \/ \E args \in NameArgs : SyncPullRequestFromGithubMutation(args)
    \/ \E u \in GithubUserIds, name \in AuthorNames :
          UpsertContributor(u, name, 1)

SpecNames == InitLinked /\ [][NextNames]_vars

\* The link upsert of the reconciler on links that upsertRepoContributor
\* has annotated (role stands for role, seniority and mainAreas): two
\* authors reconciled in one repository, links annotated in two
LinkRoles == {UndefinedName, "backend"}
AnnotationTime == 2

LinkArgs ==
    SyncArgs({"g1"}, GithubUserIds, {UndefinedName},
             {[number |-> 1, state |-> "open", merged |-> FALSE,
               mergedAt |-> Undefined]},
             StatsArgs, {1})

NextLinks ==
    \/ \E args \in LinkArgs : SyncPullRequestFromGithubMutation(args)
    \/ \E r \in repos, c \in contributors, role \in LinkRoles :
          UpsertRepoContributor(r.id, c.id, role, AnnotationTime)

SpecLinks == InitLinked /\ [][NextLinks]_vars

\* The store under direct calls of its mutations in any order, for one PR
\* number in each of two linked repositories and two authors
StoreArgs ==
    SyncArgs(LinkableRepoIds, GithubUserIds, {UndefinedName},
             {pr \in GithubPullRequestArgs({1}) : pr.state = "open" \/ pr.merged},
             {[additions |-> 1, deletions |-> 1]}, {1})

NextStore ==
    \/ \E args \in StoreArgs : SyncPullRequestFromGithubMutation(args)
    \/ \E args \in StrictArgs : SyncPullRequestFromGithubStrict(args)
    \/ \E r \in repos, openPrNumbers \in {<<>>, <<1>>} :
          PruneMutation(r.id, openPrNumbers)
    \/ \E g \in LinkableRepoIds, o \in OwnerUserIds : UpsertRepo(g, o)
    \/ \E u \in GithubUserIds : UpsertContributor(u, UndefinedName, 1)
    \/ \E r \in repos, c \in contributors, role \in Roles :
          UpsertRepoContributor(r.id, c.id, role, 1)

SpecStore == InitLinked /\ [][NextStore]_vars

\* Two linked repositories with their sync cycles and their deletion,
\* against an unchanging GitHub
InitRepos ==
    /\ repos = {[id |-> <<g, 1>>, githubRepoId |-> g, ownerUserId |-> "a1",
                 githubAccessToken |-> FALSE] : g \in LinkableRepoIds}
    /\ contributors = {}
    /\ pullRequests = {}
    /\ repoContributors = {}
    /\ usedIds = [repos |-> {<<g, 1>> : g \in LinkableRepoIds},
                 contributors |-> {}, pullRequests |-> {},
                 repoContributors |-> {}]
    /\ upstream \in {u \in [LinkableRepoIds ->
                                [PrNumbers -> {"absent", "open"}]] :
                          u["g2"][1] = "open" /\ u["g2"][2] = "absent"}
    /\ upstreamChanges = 0
    /\ cycles = [c \in Cycles |-> IdleCycle]
    /\ runs = 0
    /\ adder = IdleAdder
    /\ scheduled = 0
    /\ last = Ran("none", NoArgs, "none")
    /\ det = NoDetection
    /\ InitAux

NextRepos ==
    \/ \E r \in repos : ConfigureToken(r.id)
    \/ \E r \in repos : DeleteRepoAndData(r.id, r.ownerUserId)
    \/ ScheduleGithubSyncAllRepos(Cycles)
    \/ \E c \in Cycles : CycleStep(c)

SpecRepos == InitRepos /\ [][NextRepos]_vars

\* The ticks and the cycles of the two repositories on their own
NextTick ==
    \/ \E r \in repos : ConfigureToken(r.id)
    \/ ScheduleGithubSyncAllRepos(Cycles)
    \/ \E c \in Cycles : CycleStep(c)

SpecTick == InitRepos /\ [][NextTick]_vars

\* One repository through its life: linked by upsertRepo, synced by cycles and by direct calls of the reconcile mutation, deleted by
\* its owner (or not, by somebody else) and linked again
RepoIdsLeft(d) ==
    \A i \in d.usedIds.repos : i[Len(i)] <= MaxIncarnations

InitOwner ==
    /\ repos = {}
    /\ contributors = {}
    /\ pullRequests = {}
    /\ repoContributors = {}
    /\ usedIds = [repos |-> {}, contributors |-> {}, pullRequests |-> {},
                 repoContributors |-> {}]
    /\ upstream \in {u \in [{"g1"} -> [PrNumbers -> UpstreamStates]] :
                          /\ u["g1"][1] = "open"
                          /\ u["g1"][2] = "absent"}
    /\ upstreamChanges = 0
    /\ cycles = [c \in Cycles |-> IdleCycle]
    /\ runs = 0
    /\ adder = IdleAdder
    /\ scheduled = 0
    /\ last = Ran("none", NoArgs, "none")
    /\ det = NoDetection
    /\ InitAux

\* direct reconciles of PR 1 with another author than the one GitHub reports
OwnerArgs == {args \in StrictArgs : args.author.githubUserId = "u2"}

NextOwner ==
    \/ \E o \in OwnerUserIds :
          /\ RepoIdsLeft(upsertRepo(DB, "g1", o).db)
          /\ UpsertRepo("g1", o)
    \/ \E r \in repos : ConfigureToken(r.id)
    \/ \E id \in usedIds.repos, caller \in Callers :
          DeleteRepoAndData(id, caller)
    \/ \E args \in OwnerArgs : SyncPullRequestFromGithubMutation(args)
    \/ ScheduleGithubSyncAllRepos({"c1"})
    \/ CycleStep("c1")

SpecOwner == InitOwner /\ [][NextOwner]_vars

\* The pruner on its own: any stored set of PR rows of the two repositories
\* (each row written by the reconciler) against any list of open numbers
PruneKeys == <<[g |-> "g1", n |-> 1], [g |-> "g1", n |-> 2],
               [g |-> "g2", n |-> 1], [g |-> "g2", n |-> 2]>>
PruneLists == UNION {[1..k -> PrNumbers] : k \in 0..Cardinality(PrNumbers)}

LinkedStore ==
    [repos |-> {[id |-> <<g, 1>>, githubRepoId |-> g, ownerUserId |-> "a1",
                 githubAccessToken |-> FALSE] : g \in LinkableRepoIds},
     contributors |-> {}, pullRequests |-> {}, repoContributors |-> {},
     usedIds |-> [repos |-> {<<g, 1>> : g \in LinkableRepoIds},
                  contributors |-> {}, pullRequests |-> {},
                  repoContributors |-> {}]]

\* the store after reconciling, in the order of PruneKeys, every PR that f
\* does not leave out
RECURSIVE ReconcileAll(_, _, _)
ReconcileAll(d, f, i) ==
    IF i > Len(PruneKeys) THEN d
    ELSE IF f[i] = "absent" THEN ReconcileAll(d, f, i + 1)
    ELSE LET fullPr == [number |-> PruneKeys[i].n,
                        state |-> IF f[i] = "open" THEN "open" ELSE "closed",
                        merged_at |-> IF f[i] = "merged" THEN 1
                                      ELSE Undefined,
                        user |-> UpstreamUser(PruneKeys[i].n)]
         IN ReconcileAll(
                syncPullRequestCore(
                    d, ArgsOfFullPr(PruneKeys[i].g, fullPr, 1)).db,
                f, i + 1)

InitPrune ==
    /\ \E f \in [DOMAIN PruneKeys -> {"absent", "open", "merged"}] :
          LET d == ReconcileAll(LinkedStore, f, 1) IN
          /\ repos = d.repos
          /\ contributors = d.contributors
          /\ pullRequests = d.pullRequests
          /\ repoContributors = d.repoContributors
          /\ usedIds = d.usedIds
    /\ upstream = [g \in {"g1"} |-> [n \in PrNumbers |-> "absent"]]
    /\ upstreamChanges = 0
    /\ cycles = [c \in Cycles |-> IdleCycle]
    /\ runs = 0
    /\ adder = IdleAdder
    /\ scheduled = 0
    /\ last = Ran("none", NoArgs, "none")
    /\ det = NoDetection
    /\ InitAux

NextPrune ==
    \E r \in repos, openPrNumbers \in PruneLists :
        PruneMutation(r.id, openPrNumbers)

SpecPrune == InitPrune /\ [][NextPrune]_vars

\* A cycle that aborts and the cycle of the next tick, for one repository
\* with a token, any stored PR rows and any unchanging state of GitHub
InitConverge ==
    /\ \E f \in {h \in [DOMAIN PruneKeys -> {"absent", "open", "merged"}] :
                    \A i \in DOMAIN PruneKeys :
                        PruneKeys[i].g # "g1" => h[i] = "absent"} :
          LET d == ReconcileAll(LinkedStore, f, 1) IN
          /\ repos = {[r EXCEPT !.githubAccessToken = TRUE] :
                         r \in ReposByGithubRepoId(d, "g1")}
          /\ contributors = d.contributors
          /\ pullRequests = d.pullRequests
          /\ repoContributors = d.repoContributors
          /\ usedIds = [d.usedIds EXCEPT !.repos = {<<"g1", 1>>}]
    /\ upstream \in [{"g1"} -> [PrNumbers -> UpstreamStates]]
    /\ upstreamChanges = 0
    /\ cycles = [c \in Cycles |-> IdleCycle]
    /\ runs = 0
    /\ adder = IdleAdder
    /\ scheduled = 0
    /\ last = Ran("none", NoArgs, "none")
    /\ det = NoDetection
    /\ InitAux

NextConverge ==
    \/ runs = 0 /\ ScheduleGithubSyncAllRepos({"c1"})
    \/ cycles["c1"].pc = "failed" /\ ScheduleGithubSyncAllRepos({"c2"})
    \/ \E c \in Cycles : CycleStep(c)
    \/ \E c \in Cycles : CycleAborts(c)

SpecConverge == InitConverge /\ [][NextConverge]_vars

\* the store one complete cycle leaves, started on store d for the
\* repository repoId (githubRepoId g) against GitHub as it is
RECURSIVE ReconcileList(_, _, _, _)
ReconcileList(d, g, list, i) ==
    IF i > Len(list) THEN d
    ELSE ReconcileList(
             syncPullRequestCore(
                 d, ArgsOfFullPr(g, getPullRequest(g, list[i]), 1)).db,
             g, list, i + 1)

OneCycle(d, g, repoId) ==
    LET list == OpenOnly(g, listPullRequests(g)) IN
    pruneClosedPullRequestsForRepo(ReconcileList(d, g, list, 1), repoId, list)

\* listPullRequests on a repository that holds any number of pull requests
\* up to MaxPulls and does not change during the call; the loop keeps
\* running until it returns
InitPager ==
    /\ repos = {}
    /\ contributors = {}
    /\ pullRequests = {}
    /\ repoContributors = {}
    /\ usedIds = [repos |-> {}, contributors |-> {}, pullRequests |-> {},
                  repoContributors |-> {}]
    /\ upstream = [g \in {"g1"} |-> [n \in PrNumbers |-> "absent"]]
    /\ upstreamChanges = 0
    /\ cycles = [c \in Cycles |-> IdleCycle]
    /\ runs = 0
    /\ adder = IdleAdder
    /\ scheduled = 0
    /\ last = Ran("none", NoArgs, "none")
    /\ det = NoDetection
    /\ analysisSessions = {}
    /\ prAnalyses = {}
    /\ analysisSessionPRs = {}
    /\ workflows = [w \in Workflows |-> IdleWorkflow]
    /\ dateNow = FirstAnalysisTime
    /\ pager \in {[IdlePager EXCEPT !.pc = "request", !.total = n, !.page = 1] :
                     n \in 0..MaxPulls}

NextPager == PagerRequest

SpecPager == InitPager /\ [][NextPager]_vars /\ WF_vars(NextPager)

\* A repository whose stored PR rows are those of the PRs open on GitHub;
\* then GitHub changes, a first cycle runs and may abort, and the cycle of
\* the next tick runs
InitMirrored ==
    /\ \E u \in [{"g1"} -> [PrNumbers -> UpstreamStates]] :
          LET f == [i \in DOMAIN PruneKeys |->
                       IF PruneKeys[i].g = "g1"
                          /\ u["g1"][PruneKeys[i].n] = "open"
                       THEN "open" ELSE "absent"]
              d == ReconcileAll(LinkedStore, f, 1)
          IN /\ upstream = u
             /\ repos = {[r EXCEPT !.githubAccessToken = TRUE] :
                            r \in ReposByGithubRepoId(d, "g1")}
             /\ contributors = d.contributors
             /\ pullRequests = d.pullRequests
             /\ repoContributors = d.repoContributors
             /\ usedIds = [d.usedIds EXCEPT !.repos = {<<"g1", 1>>}]
    /\ upstreamChanges = 0
    /\ cycles = [c \in Cycles |-> IdleCycle]
    /\ runs = 0
    /\ adder = IdleAdder
    /\ scheduled = 0
    /\ last = Ran("none", NoArgs, "none")
    /\ det = NoDetection
    /\ InitAux

NextMirrored ==
    \/ /\ runs = 0
       /\ \E n \in PrNumbers, to \in UpstreamStates :
             UpstreamChange("g1", n, to)
    \/ runs = 0 /\ ScheduleGithubSyncAllRepos({"c1"})
    \/ Over("c1") /\ runs = 1 /\ ScheduleGithubSyncAllRepos({"c2"})
    \/ \E c \in Cycles : CycleStep(c)
    \/ \E c \in Cycles : CycleAborts(c)

SpecMirrored == InitMirrored /\ [][NextMirrored]_vars

\* The analysis workflows of one repository with stored PR rows: one full
\* analysis (the trigger of the sync, the dashboard button) and one more
\* PR analysis, with agent calls that may fail, while the owner may delete
\* the repository
InitAnalysis ==
    /\ \E f \in {h \in [DOMAIN PruneKeys -> {"absent", "open"}] :
                    /\ h[1] = "open"
                    /\ \A i \in DOMAIN PruneKeys :
                          PruneKeys[i].g # "g1" => h[i] = "absent"} :
          LET d == ReconcileAll(LinkedStore, f, 1) IN
          /\ repos = ReposByGithubRepoId(d, "g1")
          /\ contributors = d.contributors
          /\ pullRequests = d.pullRequests
          /\ repoContributors = d.repoContributors
          /\ usedIds = [d.usedIds EXCEPT !.repos = {<<"g1", 1>>}]
    /\ upstream = [g \in {"g1"} |-> [n \in PrNumbers |-> "absent"]]
    /\ upstreamChanges = 0
    /\ cycles = [c \in Cycles |-> IdleCycle]
    /\ runs = 0
    /\ adder = IdleAdder
    /\ scheduled = 0
    /\ last = Ran("none", NoArgs, "none")
    /\ det = NoDetection
    /\ InitAux

NextAnalysis ==
    \/ RunFullAnalysisWorkflow(<<"g1", 1>>, "w1", "s1")
    \/ RunRepoAnalysisWorkflow(<<"g1", 1>>, "w2")
    \/ \E w \in Workflows : WorkflowStep(w)
    \/ \E r \in repos : DeleteRepoAndData(r.id, r.ownerUserId)

SpecAnalysis == InitAnalysis /\ [][NextAnalysis]_vars

-----------------------------------------------------------------------------
(* Properties *)

Done(c) == cycles[c].pc = "done"
SyncRan == last.op \in {"sync", "syncStrict"}

\* C1. Mirror invariant: when a sync cycle that no other cycle of the same
\* repository overlapped completes, the PR numbers stored with status "open"
\* for the repository are exactly the numbers the cycle's list call returned
\* as open.
C1_MirrorInvariant ==
    \A c \in Cycles :
        (Done(c) /\ ~cycles[c].overlapped)
            => cycles[c].openAtEnd = Range(cycles[c].list)

\* C2. Change detection: the flag is true exactly when the stored numbers and
\* the fetched numbers differ as sets; order and duplicates of the fetched
\* list do not matter.
C2_ChangedIffSetsDiffer ==
    det.pc = "done"
        => (det.changed <=> det.existingNumbers # Range(det.openPrNumbers))

C2_Witness ==
    /\ det.pc = "done"
    /\ det.existingNumbers = {1, 2}
    /\ det.openPrNumbers = <<2, 1, 2>>
    /\ ~det.changed

\* C3. Trigger iff changed: a cycle that reaches the detection schedules the
\* analysis workflow once when the flag is true and not at all when it is
\* false, and no other step of a cycle schedules it.
C3_TriggerIffChanged ==
    /\ [](\A c \in Cycles :
            /\ Done(c) => cycles[c].triggered = IF cycles[c].changed THEN 1
                                                ELSE 0
            /\ ~Done(c) => cycles[c].triggered = 0)
    /\ [][scheduled' # scheduled =>
            \E c \in Cycles : /\ cycles[c].pc = "detect"
                              /\ Done(c)'
                              /\ cycles'[c].changed
                              /\ scheduled' = scheduled + 1]_vars

C3_Witness ==
    \E c, k \in Cycles :
        /\ Done(c) /\ cycles[c].changed /\ cycles[c].triggered = 1
        /\ Done(k) /\ ~cycles[k].changed /\ cycles[k].triggered = 0
        /\ scheduled = 1

\* C4. No false trigger: a completed cycle whose fetched open set equals the
\* numbers stored as open before its writes inserts and deletes no PR row,
\* detects no change and schedules nothing, whatever closed or merged rows
\* the table also holds.
C4_NoFalseTrigger ==
    \A c \in Cycles :
        (Done(c) /\ Range(cycles[c].list) = cycles[c].existingOpen)
            => /\ ~cycles[c].rowsChanged
               /\ ~cycles[c].changed
               /\ cycles[c].triggered = 0

\* C5. Merged precedence: a reconcile with state "closed" and a merge time
\* stores status "merged", whatever the merged flag says.
C5_MergedPrecedence ==
    (/\ SyncRan
     /\ last.outcome = "ok"
     /\ last.args.pullRequest.state = "closed"
     /\ last.args.pullRequest.mergedAt # Undefined)
        => \A r \in ReposByGithubRepoId(DB, last.args.repo.githubRepoId) :
             \A p \in PullRequestsByRepoAndNumber(
                          DB, r.id, last.args.pullRequest.number) :
                 p.status = "merged"

\* C6. Unknown-repository safety: a reconcile for a githubRepoId without a
\* repos row raises no error, returns nothing and leaves every table as it
\* was.
C6_UnknownRepoIsNoOp ==
    [][(/\ last'.op \in {"sync", "syncStrict"}
        /\ ReposByGithubRepoId(DB, last'.args.repo.githubRepoId) = {})
          => (last'.outcome = "none" /\ UNCHANGED storeVars)]_vars

\* C7. Idempotence: running the reconciler again with the arguments it has
\* just run with leaves contributors, pullRequests and repoContributors (and
\* the ids handed out) as the first run left them.
C7_ReconcileIdempotent ==
    (SyncRan /\ last.outcome = "ok")
        => LET again == IF last.op = "sync"
                        THEN syncPullRequestCore(DB, last.args)
                        ELSE syncPullRequestCoreStrict(DB, last.args)
           IN again.outcome = "ok" /\ again.db = DB

\* the reconciler has just seen a contributor, a PR and a link for the first
\* time, with lines changed
C7_Witness ==
    /\ SyncRan /\ last.outcome = "ok"
    /\ last.args.stats.additions = 1
    /\ Cardinality(contributors) = 1
    /\ Cardinality(pullRequests) = 1
    /\ Cardinality(repoContributors) = 1
    /\ Cardinality(usedIds.pullRequests) = 1

\* C8. prCount invariant: the prCount of every repoContributors row is the
\* number of pullRequests rows of its repository authored by its contributor.
C8_PrCountMatchesRows ==
    \A rc \in repoContributors :
        rc.prCount = Cardinality({p \in pullRequests :
                                     /\ p.repoId = rc.repoId
                                     /\ p.authorContributorId = rc.contributorId})

\* C9. PR uniqueness: at most one pullRequests row per (repoId, prNumber).
C9_OnePullRequestPerNumber ==
    \A p, q \in pullRequests :
        (p.repoId = q.repoId /\ p.prNumber = q.prNumber) => p = q

\* the same number is stored for two repositories, one of the rows was
\* pruned and reconciled again, and the last reconcile patched a row
C9_Witness ==
    /\ SyncRan /\ last.outcome = "ok"
    /\ \E p, q \in pullRequests : p.repoId # q.repoId /\ p.prNumber = q.prNumber
    /\ \E p \in pullRequests : p.id[Len(p.id)] = 2
    /\ \E p \in pullRequests : p.status = "merged"

\* C10. Contributor and link uniqueness: at most one contributors row per
\* githubUserId and one repoContributors row per (repoId, contributorId).
C10_OneContributorOneLink ==
    /\ \A c1, c2 \in contributors :
          c1.githubUserId = c2.githubUserId => c1 = c2
    /\ \A l1, l2 \in repoContributors :
          (l1.repoId = l2.repoId /\ l1.contributorId = l2.contributorId)
              => l1 = l2

\* two contributors, one of them linked to both repositories
C10_Witness ==
    /\ Cardinality(contributors) = 2
    /\ \E c \in contributors :
          \A r \in repos :
              RepoContributorsByRepoAndContributor(DB, r.id, c.id) # {}
    /\ Cardinality(repoContributors) >= 3

RepoRow(c) == {r \in repos : r.id = cycles[c].repoId}

\* C11. Configuration-absent skip: a cycle that finds no repos row for its
\* repoId, or a row without githubAccessToken, ends as skipped (not failed)
\* in that very step, which changes no table and schedules nothing; a skipped
\* cycle has made no upstream call and no write.
C11_SkipWithoutCredential ==
    /\ [][\A c \in Cycles :
            (/\ cycles[c].pc = "start"
             /\ cycles'[c].pc # "start"
             /\ \A r \in RepoRow(c) : ~r.githubAccessToken)
                => /\ cycles'[c].pc = "skipped"
                   /\ UNCHANGED <<storeVars, scheduled>>]_vars
    /\ [](\A c \in Cycles :
            cycles[c].pc = "skipped"
                => /\ cycles[c].list = <<>> /\ cycles[c].i = 0
                   /\ cycles[c].fullPr = NoFullPr
                   /\ cycles[c].existingPrs = {}
                   /\ ~cycles[c].rowsChanged
                   /\ cycles[c].triggered = 0)

\* one cycle skipped because its row is gone, another because its row has no
\* token
C11_Witness ==
    \E c, k \in Cycles :
        /\ cycles[c].pc = "skipped" /\ RepoRow(c) = {}
        /\ cycles[k].pc = "skipped" /\ RepoRow(k) # {}
        /\ \A r \in RepoRow(k) : ~r.githubAccessToken

\* C12. Upstream-unavailable leaves state untouched: a cycle that aborts on a
\* failed upstream call (the list call or the detail call of any fetched PR)
\* has inserted and deleted no pullRequests row and has scheduled nothing.
C12_FetchFailureWritesNothing ==
    \A c \in Cycles :
        (cycles[c].pc = "failed" /\ ~cycles[c].changed)
            => ~cycles[c].rowsChanged /\ cycles[c].triggered = 0

\* the cycles a tick has just started
Started(c) == Over(c) /\ cycles[c].pc' = "start"

\* the pullRequests rows a step inserts, deletes or rewrites
Touched == (pullRequests \ pullRequests') \cup (pullRequests' \ pullRequests)

C14_PrunerContract ==
    [][last'.op = "prune" =>
        /\ pullRequests' =
              {p \in pullRequests :
                  ~(/\ p.repoId = last'.repoId
                    /\ \A i \in DOMAIN last'.openPrNumbers :
                          last'.openPrNumbers[i] # p.prNumber)}
        /\ UNCHANGED <<repos, contributors, repoContributors, usedIds>>]_vars

\* a prune with <<1>> has left PR 1 of its repository, PR 2 of it is gone,
\* and PR 2 of the other repository is still stored
C14_Witness ==
    /\ last.op = "prune"
    /\ last.openPrNumbers = <<1>>
    /\ PullRequestsByRepoAndNumber(DB, last.repoId, 1) # {}
    /\ PullRequestsByRepoAndNumber(DB, last.repoId, 2) = {}
    /\ <<last.repoId, 2, 1>> \in usedIds.pullRequests
    /\ \E p \in pullRequests : p.repoId # last.repoId /\ p.prNumber = 2

\* the pullRequests documents a step deletes
Deleted == {p \in pullRequests : \A q \in pullRequests' : q.id # p.id}

\* C15. The pruner never removes a currently-open PR: no step deletes a
\* pullRequests row whose PR is open on GitHub at the time of the deletion,
\* overlapping cycles of the repository included.
C15_NeverPrunesOpenPr ==
    [][\A p \in Deleted : upstream["g1"][p.prNumber] # "open"]_vars

\* C16. Best-effort trigger: a scheduling failure in a cycle that detected a
\* change is contained: every cycle that detected a change ends as a
\* success.
C16_ScheduleFailureContained ==
    \A c \in Cycles : cycles[c].changed => Done(c)

\* C17. Per-PR atomicity: every pullRequests row has the contributors row of
\* its authorContributorId and the repoContributors row of (its repoId, its
\* authorContributorId).
C17_PrHasAuthorAndLink ==
    \A p \in pullRequests :
        /\ \E c \in contributors : c.id = p.authorContributorId
        /\ RepoContributorsByRepoAndContributor(
               DB, p.repoId, p.authorContributorId) # {}

\* the repository was deleted with its rows and linked again, and its PR now
\* stored was reconciled with a second author
C17_Witness ==
    /\ Cardinality(contributors) = 2
    /\ \E p \in pullRequests :
          /\ p.repoId = <<"g1", 2>>
          /\ p.authorContributorId = <<"u2", 1>>
    /\ \A rc \in repoContributors : rc.repoId = <<"g1", 2>>

\* the repos documents a step inserts, and those it deletes
ReposInserted == {r \in repos' : \A q \in repos : q.id # r.id}
ReposDeleted == {r \in repos : \A q \in repos' : q.id # r.id}

\* C19. Sync never creates or removes a repository: a step of a sync cycle
\* and a reconcile or prune mutation leave the repos table as it is; a repos
\* row is inserted only by upsertRepo or saveGithubRepo and deleted only by
\* a deleteRepoAndData called by the row's owner.
C19_SyncLeavesRepos ==
    /\ [][(cycles' # cycles \/ last'.op \in {"sync", "syncStrict", "prune"})
            => repos' = repos]_vars
    /\ [][ReposInserted # {}
            => last'.op \in {"upsertRepo", "saveGithubRepo"}]_vars
    /\ [][\A r \in ReposDeleted :
            /\ last'.op = "deleteRepoAndData"
            /\ last'.repoId = r.id
            /\ last'.caller = r.ownerUserId]_vars

\* the repository was deleted by its owner and linked again, it has a PR
\* row, and somebody else has just tried to delete it
C19_Witness ==
    /\ \E r \in repos : r.id = <<"g1", 2>>
    /\ pullRequests # {}
    /\ last.op = "deleteRepoAndData"
    /\ last.caller = "a2"
    /\ last.outcome = "error"

\* a pullRequests row without its document id and its lastSyncedAt
Fields(p) == [f \in DOMAIN p \ {"id", "lastSyncedAt"} |-> p[f]]

\* C18. Partial-write convergence: when a cycle has aborted (after some
\* reconciles, or after all of them and before the prune) and the next cycle
\* of the repository has completed against the same state of GitHub, the
\* repository's pullRequests rows are those one complete cycle would have
\* left, started on the rows the aborted cycle found.
C18_NextCycleConverges ==
    (cycles["c1"].pc = "failed" /\ Done("c2"))
        => LET repoId == cycles["c1"].repoId
               before == [DB EXCEPT !.pullRequests = cycles["c1"].existingPrs]
               expected == PullRequestsByRepo(
                               OneCycle(before, "g1", repoId), repoId)
               rows == PullRequestsByRepo(DB, repoId)
           IN /\ {Fields(p) : p \in rows} = {Fields(p) : p \in expected}
              /\ Cardinality(rows) = Cardinality(expected)

\* the first cycle reconciled one of two fetched PRs and aborted, the second
\* cycle has completed; a stored PR that is no longer open was pruned
C18_Witness ==
    /\ cycles["c1"].pc = "failed"
    /\ Len(cycles["c1"].list) = 2 /\ cycles["c1"].i = 2
    /\ cycles["c1"].rowsChanged
    /\ Done("c2")
    /\ Cardinality(pullRequests) = 2

\* the order of the awaits of syncRepoPullRequestsFromGithub
CycleOrder ==
    {<<"start", "snapshot">>, <<"start", "skipped">>, <<"snapshot", "list">>,
     <<"list", "detail">>, <<"list", "prune">>, <<"list", "failed">>,
     <<"detail", "reconcile">>, <<"detail", "failed">>,
     <<"reconcile", "detail">>, <<"reconcile", "prune">>,
     <<"reconcile", "failed">>, <<"prune", "detect">>,
     <<"detect", "done">>, <<"detect", "failed">>}

\* cycle c moves from one await to the next in this step
Moves(c) == ~Over(c) /\ cycles'[c].pc # cycles[c].pc

\* C20. Ordering within one cycle: the snapshot of the locally known PR
\* numbers is read before the cycle's first write and then kept; the
\* reconcile mutations run one at a time in the order of the fetched list;
\* the prune starts only after the reconcile of the last fetched open PR; the
\* change decision follows the prune and compares the fetched list with the
\* snapshot, not with the table as written; the trigger is scheduled last.
C20_CycleOrdering ==
    /\ [](\A c \in Cycles :
            /\ cycles[c].pc \in {"start", "snapshot"}
                  => cycles[c].i = 0 /\ ~cycles[c].rowsChanged
            /\ cycles[c].pc \in {"detail", "reconcile"}
                  => cycles[c].i \in 1..Len(cycles[c].list)
            /\ cycles[c].pc \in {"prune", "detect"}
                  => cycles[c].i = Len(cycles[c].list) + 1)
    /\ [][\A c \in Cycles :
            /\ Moves(c) => <<cycles[c].pc, cycles'[c].pc>> \in CycleOrder
            /\ (Moves(c) /\ cycles[c].pc = "snapshot")
                  => /\ storeVars' = storeVars
                     /\ cycles'[c].existingNumbers =
                          {p.prNumber :
                              p \in PullRequestsByRepo(DB, cycles[c].repoId)}
            /\ cycles[c].pc \in {"list", "detail", "reconcile", "prune",
                                  "detect"}
                  => cycles'[c].existingNumbers = cycles[c].existingNumbers
            /\ (Moves(c) /\ storeVars' # storeVars)
                  => cycles[c].pc \in {"reconcile", "prune"}
            /\ (Moves(c) /\ cycles[c].pc = "reconcile")
                  => /\ cycles'[c].i = cycles[c].i + 1
                     /\ last'.op = "sync"
                     /\ last'.args.pullRequest.number =
                          cycles[c].list[cycles[c].i]
            /\ (Moves(c) /\ cycles[c].pc = "prune")
                  => /\ last'.op = "prune"
                     /\ last'.openPrNumbers = cycles[c].list
            /\ (Moves(c) /\ cycles[c].pc = "detect")
                  => /\ storeVars' = storeVars
                     /\ cycles'[c].changed =
                          Changed(cycles[c].existingNumbers, cycles[c].list)
            /\ (Moves(c) /\ scheduled' # scheduled)
                  => /\ cycles[c].pc = "detect" /\ cycles'[c].pc = "done"
                     /\ cycles'[c].changed]_vars
    /\ [][scheduled' # scheduled => \E c \in Cycles : Moves(c)]_vars

\* a cycle that found one stored PR, fetched two open PRs, reconciled both,
\* pruned, decided on the snapshot and scheduled the trigger
C20_Witness ==
    \E c \in Cycles :
        /\ Done(c)
        /\ Len(cycles[c].list) = 2 /\ cycles[c].i = 3
        /\ Cardinality(cycles[c].existingNumbers) = 1
        /\ Cardinality(PullRequestsByRepo(DB, cycles[c].repoId)) = 2
        /\ cycles[c].changed /\ cycles[c].triggered = 1

\* the rows the cycle found at its snapshot whose number it then fetched as
\* open are still stored, under the same document id
Kept(cy, d) ==
    \A q \in cy.existingPrs :
        q.prNumber \in Range(cy.list)
            => \E p \in PullRequestsByRepo(d, cy.repoId) :
                   p.id = q.id /\ p.prNumber = q.prNumber

\* C21. No transient deletion: in every state of a sync cycle that no other
\* cycle of the repository overlaps, from the fetch to the end of the cycle,
\* a PR that was stored before the cycle and is in the cycle's fetched open
\* set has its pullRequests row, with the document id it had before.
C21_NoTransientDeletion ==
    /\ [](\A c \in Cycles :
            (cycles[c].pc \in {"detail", "reconcile", "prune", "detect"}
                /\ ~cycles[c].overlapped) => Kept(cycles[c], DB))
    /\ [][\A c \in Cycles :
            (Moves(c) /\ ~cycles'[c].overlapped)
                => Kept(cycles'[c], [pullRequests |-> pullRequests'])]_vars

\* a cycle nothing overlapped found PR 1 stored, fetched PR 1 and PR 2 as
\* open, inserted PR 2 and completed
C21_Witness ==
    \E c \in Cycles :
        /\ Done(c) /\ ~cycles[c].overlapped
        /\ cycles[c].existingNumbers = {1}
        /\ Range(cycles[c].list) = {1, 2}
        /\ cycles[c].rowsChanged
        /\ Kept(cycles[c], DB)

\* a name that is absent or empty
NoName(name) == name \in {UndefinedName, EmptyName}

\* C22. Contributor fields are never erased: a reconcile or an
\* upsertContributor for a stored contributor with an absent or empty name
\* keeps the stored non-empty name; a non-empty name replaces the stored one.
C22_NameNeverErased ==
    /\ [][\A c \in contributors : \A k \in contributors' :
            (k.id = c.id /\ ~NoName(c.name)) => ~NoName(k.name)]_vars
    /\ [][(last'.op = "sync" /\ last'.outcome = "ok"
             /\ ~NoName(last'.args.author.name))
            => \A k \in ContributorsByGithubUserId(
                             [contributors |-> contributors'],
                             last'.args.author.githubUserId) :
                   k.name = last'.args.author.name]_vars

\* C23. PR status has no re-opening transition: the status of a stored
\* pullRequests row only goes from open to merged or from open to closed (or
\* the row is deleted); no reconcile sets a merged or closed row to open.
C23_NoReopening ==
    [][\A p \in pullRequests : \A q \in pullRequests' :
          q.id = p.id
              => \/ q.status = p.status
                 \/ p.status = "open" /\ q.status \in {"merged", "closed"}]_vars

\* C24. Pagination completeness and termination: on a repository holding N
\* pull requests that does not change, listPullRequests requests the pages
\* 1, 2, ... of 50, stops after the first page that is empty or shorter than
\* 50, returns for every N, and returns each of the N pull requests exactly
\* once; for N = 0 and for N a multiple of 50 the last page requested is
\* empty.
C24_PaginationComplete ==
    /\ [](pager.pc = "request"
            => /\ pager.pages = pager.page - 1
               /\ pager.all = [k \in 1..(50 * pager.pages) |-> k]
               /\ 50 * pager.pages <= pager.total)
    /\ [](pager.pc = "returned"
            => /\ pager.all = [k \in 1..pager.total |-> k]
               /\ pager.pages = pager.page
               /\ pager.pages = (pager.total \div 50) + 1)
    /\ <>(pager.pc = "returned")

\* the call returned the 100 pull requests of the repository after a third,
\* empty page
C24_Witness ==
    /\ pager.pc = "returned"
    /\ pager.total = 100
    /\ pager.pages = 3
    /\ Len(pager.all) = 100

\* the running pr_auto sessions of a repository
RunningPrAuto(repoId) ==
    {ses \in AnalysisSessionsByRepo(repoId) :
        ses.sessionType = "pr_auto" /\ ses.status = "running"}

\* C25. Analysis overlap guard: a repository has at most one running
\* analysisSessions row of sessionType pr_auto at any time, however the
\* runRepoAnalysisWorkflow invocations for it interleave; an invocation that
\* saw a running session creates no session and no prAnalyses row.
C25_OneRunningPrAutoSession ==
    /\ \A r \in repos : Cardinality(RunningPrAuto(r.id)) <= 1
    /\ \A w \in Analyses :
          workflows[w].guarded
              => /\ workflows[w].pc = "returned"
                 /\ workflows[w].sessionId = <<>>
                 /\ workflows[w].prAnalysisId = <<>>

\* the session a workflow created
SessionOf(w) == {ses \in analysisSessions : ses.id = workflows[w].sessionId}

\* C27. Analysis sessions always finish: once a workflow that created a
\* running analysisSessions row has ended, by returning or by throwing at a
\* failed agent call or mutation, the row has status completed or failed;
\* no ended run leaves a running session behind for the overlap guard of
\* later runs to stop at.
C27_EndedRunLeavesNoRunningSession ==
    \A w \in Workflows :
        workflows[w].pc \in {"returned", "failed"}
            => \A ses \in SessionOf(w) : ses.status \in {"completed", "failed"}

\* the ids of the stored repositories and PR rows
RepoIds == {r.id : r \in repos}

\* C29. No orphan rows after repository deletion: once deleteRepoAndData and
\* every workflow in flight for the repository have finished, no row of
\* pullRequests, repoContributors, prAnalyses, analysisSessions or
\* analysisSessionPRs refers to the deleted repository.
C29_NoOrphanRows ==
    (\A w \in Workflows : WorkflowOver(w))
        => /\ \A p \in pullRequests : p.repoId \in RepoIds
           /\ \A rc \in repoContributors : rc.repoId \in RepoIds
           /\ \A a \in prAnalyses : a.repoId \in RepoIds
           /\ \A ses \in analysisSessions : ses.repoId \in RepoIds
           /\ \A spr \in analysisSessionPRs :
                 \E ses \in analysisSessions :
                     ses.id = spr.analysisSessionId /\ ses.repoId \in RepoIds

\* C26. No lost change: when the set of PRs open on GitHub has changed (the
\* stored rows mirrored it before, and no cycle had started) and a sync
\* cycle of the repository has then completed, the analysis workflow has
\* been scheduled at least once since the change, also when an earlier
\* cycle aborted after reconciling the new PR.
C26_NoLostChange ==
    (upstreamChanges = 1 /\ \E c \in Cycles : Done(c)) => scheduled >= 1

\* C28. A repository linked through addFromGithub is synced by the
\* scheduler: once addFromGithub has completed, the repos row carries the
\* access credential, and a scheduled cycle for the repository passes the
\* credential check instead of taking the skip path.
C28_AddedRepoHasCredential ==
    /\ [](adder.pc = "done"
            => \A r \in ReposByGithubRepoId(DB, adder.githubRepoId) :
                   r.githubAccessToken)
    /\ [][\A c \in Cycles :
            (adder.pc = "done" /\ cycles[c].pc = "start"
                /\ \E r \in ReposByGithubRepoId(DB, adder.githubRepoId) :
                       r.id = cycles[c].repoId)
                => cycles'[c].pc # "skipped"]_vars

\* the link the reconcile with these arguments upserts
ReconciledLinks(args) ==
    {rc \in repoContributors :
        /\ \E r \in ReposByGithubRepoId(DB, args.repo.githubRepoId) :
              rc.repoId = r.id
        /\ \E c \in ContributorsByGithubUserId(DB, args.author.githubUserId) :
              rc.contributorId = c.id}

\* C30. Reconcile preserves inferred annotations: a reconcile for an
\* existing (repository, contributor) link changes only that link's prCount
\* and linesChanged (and updatedAt) and leaves its role, seniority,
\* mainAreas and createdAt as they were; it changes no repoContributors row
\* of another pair.
C30_ReconcilePreservesAnnotations ==
    [][(last'.op = "sync" /\ last'.outcome = "ok")
        => \A rc \in repoContributors :
              \E k \in repoContributors' :
                  /\ k.id = rc.id
                  /\ k.repoId = rc.repoId
                  /\ k.contributorId = rc.contributorId
                  /\ k.role = rc.role
                  /\ k.createdAt = rc.createdAt
                  /\ rc \notin ReconciledLinks(last'.args) => k = rc]_vars

\* a link that was annotated after its first reconcile has been reconciled
\* again, with other stats, next to the link of another pair
C30_Witness ==
    /\ last.op = "sync" /\ last.outcome = "ok"
    /\ \E rc \in ReconciledLinks(last.args) :
          /\ rc.role = "backend"
          /\ rc.createdAt = 1
          /\ rc.linesChanged = 0
          /\ rc.prCount = 1
    /\ \E rc \in repoContributors \ ReconciledLinks(last.args) :
          rc.role = "backend" /\ rc.createdAt = AnnotationTime

====
